---- MODULE Spec2Model ----
(***************************************************************************)
(* The command-confirmation protocol of src/app.py: the HTTP thread        *)
(* (handle_slider) records an intent per camera and launches one           *)
(* publish_batch_messages task per camera on the asyncio event loop; the   *)
(* bus listener runs handle_camera_inquiry for every inquiry reply.        *)
(*                                                                         *)
(* Python strings are sequences of one-character strings, so that str()    *)
(* and lower() are computed; a topic is a sequence of tokens.  Every       *)
(* settings dict created by get_camera_settings is an object of the heap   *)
(* `dicts`, and last_sent_messages and the tasks hold references to it.    *)
(***************************************************************************)
EXTENDS Integers, Sequences, FiniteSets, TLC

VARIABLES
    MAX_MESSAGES,        \* Config.MAX_MESSAGES
    last_update,         \* the last update_nats_count request and its answer
    proc,                \* shutdown_event, the close_nats task, the event loop
    is_connected,        \* nats_client.is_connected
    dicts,               \* heap of the settings dicts, in order of creation
    last_sent_messages,  \* camera key -> reference into dicts (0: key absent)
    http,                \* the HTTP thread inside handle_slider
    tasks,               \* the publish_batch_messages coroutines, in launch order
    handler,             \* handle_camera_inquiry per subscription
    handled,             \* per camera: replies handled, and the last of them
    nReplies,            \* inquiry replies delivered so far
    nFaults              \* publish and emit calls that raised so far

vars == <<MAX_MESSAGES, last_update, proc, is_connected, dicts, last_sent_messages, http, tasks,
          handler, handled, nReplies, nFaults>>

\* ------------------------------------------------------------------ bounds
NumCameras == 2
MaxIntents == 2
MaxReplies == 1
MaxFaults == 1
MaxMessagesBound == 2

\* ------------------------------------------------------- Python strings
DigitChars == <<"0", "1", "2", "3", "4", "5", "6", "7", "8", "9">>

UpperChars == <<"A", "B", "C", "D", "E", "F", "G", "H", "I", "J", "K", "L", "M",
                "N", "O", "P", "Q", "R", "S", "T", "U", "V", "W", "X", "Y", "Z">>

LowerChars == <<"a", "b", "c", "d", "e", "f", "g", "h", "i", "j", "k", "l", "m",
                "n", "o", "p", "q", "r", "s", "t", "u", "v", "w", "x", "y", "z">>

RECURSIVE IntStr(_)
IntStr(n) ==
    IF n < 0 THEN <<"-">> \o IntStr(-n)
    ELSE IF n < 10 THEN <<DigitChars[n + 1]>>
    ELSE IntStr(n \div 10) \o <<DigitChars[(n % 10) + 1]>>

\* a JSON / Python value: an int or a str
IntV(n) == [t |-> "int", n |-> n, s |-> <<>>]
StrV(s) == [t |-> "str", n |-> 0, s |-> s]

\* str(v)
PyStr(v) == IF v.t = "int" THEN IntStr(v.n) ELSE v.s

LowerChar(c) ==
    IF \E i \in 1..Len(UpperChars) : UpperChars[i] = c
    THEN LowerChars[CHOOSE i \in 1..Len(UpperChars) : UpperChars[i] = c]
    ELSE c

\* s.lower()
PyLowerOmitted(s) == s
PyLower(s) == [i \in 1..Len(s) |-> LowerChar(s[i])]

\* ----------------------------------------------------------------- topics
\* f"{prefix}.camera{camera_num}"
TopicOf(prefix, camera_num) == <<prefix, ".", "camera">> \o camera_num

\* "colour-control" in topic
ConfirmableAlways(topic) == TRUE
Confirmable(topic) == \E i \in 1..Len(topic) : topic[i] = "colour-control"

LastDot(topic) ==
    CHOOSE i \in 0..Len(topic) :
        /\ (i = 0 \/ topic[i] = ".")
        /\ \A j \in (i + 1)..Len(topic) : topic[j] # "."

\* topic.split('.')[-1].replace('camera', '')
CameraNumOf(topic) ==
    SelectSeq(SubSeq(topic, LastDot(topic) + 1, Len(topic)),
              LAMBDA tok : tok # "camera")

CameraNums == 1..NumCameras
\* str(camera_num): the keys of last_sent_messages
CameraKeys == {IntStr(n) : n \in CameraNums}

\* --------------------------------------------------------- camera settings
\* the rows of the preset table read from Config.CSV_PATH
camera_settings ==
    << [iris |-> 5, exposuregain |-> 3, shutterspeed |-> 100, brightness |-> 50],
       [iris |-> 6, exposuregain |-> 3, shutterspeed |-> 100, brightness |-> 50] >>

\* slider positions a request may carry; the last one is out of range
SliderValues == 0..Len(camera_settings)

\* CameraController.get_camera_settings: iloc raises out of range -> None
SettingsFound(slider_value) == slider_value + 1 \in 1..Len(camera_settings)

get_camera_settings(slider_value) ==
    LET settings == camera_settings[slider_value + 1] IN
    [ changeexposuremode |-> StrV(<<"1">>),
      exposuremode       |-> StrV(<<"m", "a", "n", "u", "a", "l">>),
      iris               |-> IntV(settings.iris),
      exposuregain       |-> IntV(settings.exposuregain),
      shutterspeed       |-> IntV(settings.shutterspeed),
      brightness         |-> IntV(settings.brightness) ]

SettingKeys ==
    {"changeexposuremode", "exposuremode", "iris", "exposuregain",
     "shutterspeed", "brightness"}

\* settings['last_status'] = 'pending'
InitialStatusKept(previous) ==
    IF previous = 0 THEN "pending" ELSE dicts[previous].last_status
InitialStatus(previous) == "pending"

\* the dict handle_slider stores and sends: the settings plus last_status
NewDict(slider_value, status) ==
    LET settings == get_camera_settings(slider_value) IN
    [ changeexposuremode |-> settings.changeexposuremode,
      exposuremode       |-> settings.exposuremode,
      iris               |-> settings.iris,
      exposuregain       |-> settings.exposuregain,
      shutterspeed       |-> settings.shutterspeed,
      brightness         |-> settings.brightness,
      last_status        |-> status ]

\* ------------------------------------------------------- inquiry replies
\* the payload of a reply: the JSON text as its fields in order, or text
\* json.loads rejects
Malformed == <<"malformed">>

JsonDecodable(payload) == payload # Malformed

\* json.loads: a dict; of two fields of one name the later one wins
JsonLoads(payload) ==
    [k \in {payload[i][1] : i \in 1..Len(payload)} |->
        payload[CHOOSE i \in 1..Len(payload) :
                    /\ payload[i][1] = k
                    /\ \A j \in (i + 1)..Len(payload) : payload[j][1] # k][2]]

\* received_data.get(received_key, '')
DictGet(received_data, received_key) ==
    IF received_key \in DOMAIN received_data
    THEN received_data[received_key]
    ELSE StrV(<<>>)

comparison_map ==
    << <<"ExposureMode", "exposuremode">>,
       <<"ExposureIris", "iris">>,
       <<"ExposureGain", "exposuregain">>,
       <<"ExposureExposureTime", "shutterspeed">>,
       <<"DigitalBrightLevel", "brightness">> >>

\* str(last_sent[sent_key]).lower()
SentValue(last_sent, sent_key) == PyLower(PyStr(last_sent[sent_key]))

\* str(received_data.get(received_key, '')).lower()
ReceivedValue(received_data, received_key) ==
    PyLower(PyStr(DictGet(received_data, received_key)))

\* the loop over comparison_map that fills mismatches
ComputeMismatches(last_sent, received_data) ==
    LET differing ==
            {i \in 1..Len(comparison_map) :
                /\ comparison_map[i][2] \in DOMAIN last_sent
                /\ SentValue(last_sent, comparison_map[i][2])
                     # ReceivedValue(received_data, comparison_map[i][1])}
        entryOf(sent_key) ==
            CHOOSE i \in differing : comparison_map[i][2] = sent_key
    IN  [sent_key \in {comparison_map[i][2] : i \in differing} |->
            [sent     |-> SentValue(last_sent, sent_key),
             received |-> ReceivedValue(received_data,
                                        comparison_map[entryOf(sent_key)][1])]]

\* `not mismatches`
NoMismatch(mismatches) == DOMAIN mismatches = {}

\* 'success' if not mismatches else 'mismatch'
OutcomeOf(mismatches) == IF NoMismatch(mismatches) THEN "success" ELSE "mismatch"

\* JSON null
Null == <<"null">>

\* result_message without its timestamp
ResultMessageAlwaysDone(camera_num, mismatches) ==
    [camera     |-> camera_num,
     status     |-> <<"All settings done">>,
     mismatches |-> IF NoMismatch(mismatches) THEN Null ELSE mismatches]
ResultMessage(camera_num, mismatches) ==
    [camera     |-> camera_num,
     status     |-> IF NoMismatch(mismatches)
                    THEN <<"All settings done">> ELSE Null,
     mismatches |-> IF NoMismatch(mismatches) THEN Null ELSE mismatches]

\* ------------------------------------------------------------ handle_slider
\* what one request may carry as camera_num: a list of camera numbers
CameraLists == UNION {[1..n -> CameraNums] : n \in 1..MaxIntents}

HttpIdle == [slider_value |-> 0, camera_nums |-> <<>>, first |-> 0]

\* what handle_camera_inquiry did for a camera: n replies compared and
\* written, published result messages; and of the last of them the payload,
\* the dict it was compared against, the dict whose last_status was written,
\* the last_status that dict had before, the outcome written, the
\* mismatches, the result message published on
\* `topic` (ok unless publish raised), and which tasks of the camera were in
\* their wait after the inquiry then, each with its retry_count
NoReply ==
    [n |-> 0, published |-> 0, data |-> <<>>, against |-> 0, rec |-> 0,
     before |-> "", outcome |-> "", mismatches |-> <<>>, topic |-> <<>>,
     result |-> Null,
     ok |-> TRUE, waiting |-> {}]

\* the coroutine object publish_batch_messages(topic, message, max_retries)
\* before its first step; retry_count = 0, settings_applied = False
NewTask(topic, message, max_retries) ==
    [topic |-> topic, message |-> message, max_retries |-> max_retries,
     retry_count |-> 0, settings_applied |-> FALSE,
     camera_num |-> CameraNumOf(topic),
     pc |-> "start", trace |-> <<>>]

\* settings = camera_controller.get_camera_settings(slider_value), called in
\* the loop body: every camera of a request gets a dict of its own
SettingsRefShared(first) == IF first = 0 THEN Len(dicts) + 1 ELSE first
SettingsRef(first) == Len(dicts) + 1

\* request.get_json() and the normalisation of camera_num to a list
HandleSliderBegin(slider_value, camera_nums) ==
    /\ http.camera_nums = <<>>
    /\ Len(dicts) + Len(camera_nums) <= MaxIntents
    /\ http' = [slider_value |-> slider_value, camera_nums |-> camera_nums,
                first |-> 0]
    /\ UNCHANGED <<MAX_MESSAGES, last_update, proc, is_connected, dicts, last_sent_messages, tasks, handler,
                   handled, nReplies, nFaults>>

\* one iteration of the loop over camera_nums
HandleSliderIter ==
    /\ http.camera_nums # <<>>
    /\ LET camera_num == IntStr(Head(http.camera_nums))
           colour_topic == TopicOf("colour-control", camera_num)
           ref == SettingsRef(http.first)
           settings == NewDict(http.slider_value,
                               InitialStatus(last_sent_messages[camera_num]))
       IN  IF ~SettingsFound(http.slider_value)
           THEN \* return ..., 500
                /\ http' = HttpIdle
                /\ UNCHANGED <<dicts, last_sent_messages, tasks>>
           ELSE /\ dicts' = IF ref > Len(dicts)
                            THEN Append(dicts, settings)
                            ELSE [dicts EXCEPT ![ref] = settings]
                /\ last_sent_messages' =
                       [last_sent_messages EXCEPT ![camera_num] = ref]
                /\ IF is_connected
                   THEN /\ tasks' = Append(tasks,
                               NewTask(colour_topic, ref, MAX_MESSAGES))
                        /\ http' = IF Len(http.camera_nums) = 1
                                   THEN HttpIdle
                                   ELSE [http EXCEPT
                                            !.camera_nums = Tail(@),
                                            !.first = IF @ = 0 THEN ref ELSE @]
                   ELSE \* return ..., 500: the record stays written
                        /\ tasks' = tasks
                        /\ http' = HttpIdle
    /\ UNCHANGED <<MAX_MESSAGES, last_update, proc, is_connected, handler, handled, nReplies, nFaults>>

\* ------------------------------------------------ the process and its end
\* shutdown_event is clear, no close_nats task exists, the event loop runs
ProcRunning == [shutdown_event |-> FALSE, close_task |-> "none", loop |-> "running"]

\* start_nats_loop is inside its while loop: callbacks and tasks are run
LoopRunning == proc.loop = "running"

\* nats_client.close() has run: publish raises on the closed connection
Closed == proc.close_task = "done"

\* the connection to the bus is lost, and the client reconnects
ConnectionLost ==
    /\ is_connected
    /\ nFaults < MaxFaults
    /\ is_connected' = FALSE
    /\ nFaults' = nFaults + 1
    /\ UNCHANGED <<MAX_MESSAGES, last_update, proc, dicts, last_sent_messages, http, tasks, handler,
                   handled, nReplies>>

Reconnected ==
    /\ ~is_connected
    /\ ~Closed
    /\ is_connected' = TRUE
    /\ UNCHANGED <<MAX_MESSAGES, last_update, proc, dicts, last_sent_messages, http, tasks, handler,
                   handled, nReplies, nFaults>>

\* --------------------------------------------------- publish_batch_messages
\* what a task did, in order: "notify" (socketio.emit of a status update;
\* text, retries_complete, settings_applied and the attempt it names; ok
\* unless emit raised), "cmd" (publish of the payload on its topic; ok
\* unless publish raised), "inq" (publish on
\* ptzcontrol.cameraN) and "poll" (the read of last_status after the wait; ok
\* iff it read 'success')
NotifyEvent(text, retries_complete, settings_applied, attempt) ==
    [ev |-> "notify", topic |-> <<>>, text |-> text, rc |-> retries_complete,
     sa |-> settings_applied, att |-> attempt, ok |-> TRUE, payload |-> <<>>]

\* json.dumps(message): the dict as it is when the command is published,
\* last_status included; message 0 is no stored dict
JsonDumps(message) == IF message = 0 THEN <<>> ELSE dicts[message]

CmdEvent(topic, payload, ok) ==
    [ev |-> "cmd", topic |-> topic, text |-> "", rc |-> FALSE, sa |-> FALSE,
     att |-> 0, ok |-> ok, payload |-> payload]

\* inquiry_topic = f"ptzcontrol.camera{camera_num}"
InqEvent(camera_num, ok) ==
    [ev |-> "inq", topic |-> TopicOf("ptzcontrol", camera_num), text |-> "",
     rc |-> FALSE, sa |-> FALSE, att |-> 0, ok |-> ok, payload |-> <<>>]

PollEvent(success) ==
    [ev |-> "poll", topic |-> <<>>, text |-> "", rc |-> FALSE, sa |-> FALSE,
     att |-> 0, ok |-> success, payload |-> <<>>]

\* a call that raises: a publish that fails (~ok), an emit that fails
\* (~delivered); at most MaxFaults of them in a run
Raised(ok, delivered) ==
    (IF ok THEN 0 ELSE 1) + (IF delivered THEN 0 ELSE 1)

MayRaise(ok, delivered) ==
    /\ nFaults + Raised(ok, delivered) <= MaxFaults
    /\ nFaults' = nFaults + Raised(ok, delivered)

\* the event loop runs one callback at a time: no task steps while
\* handle_camera_inquiry is between its lookup and its write
LoopFree == \A c \in CameraKeys : handler[c].pc = "idle"

\* whether a failing socketio.emit leaves publish_status_to_ui as an
\* exception: its try/except prints and returns
EmitRaisesPropagated(delivered) == ~delivered
EmitRaises(delivered) == FALSE

\* await publish_status_to_ui(camera_num, status_message, additional_data)
Emit(t, event, delivered) ==
    IF t.pc = "failed" THEN t
    ELSE [t EXCEPT !.trace = Append(@, [event EXCEPT !.ok = delivered]),
                   !.pc = IF EmitRaises(delivered) THEN "failed" ELSE @]

\* while retry_count < max_retries and not settings_applied
LoopCondLive(retry_count, max_retries, settings_applied) ==
    retry_count < MAX_MESSAGES /\ ~settings_applied
LoopCondInclusive(retry_count, max_retries, settings_applied) ==
    retry_count <= max_retries /\ ~settings_applied
LoopCond(retry_count, max_retries, settings_applied) ==
    retry_count < max_retries /\ ~settings_applied

\* the first status update, sent before the loop
Sending(t, delivered) ==
    IF t.pc = "start" /\ Confirmable(t.topic)
    THEN Emit(t, NotifyEvent("Sending settings...", FALSE, FALSE, 0), delivered)
    ELSE t

\* the code after the loop: the final status update; the coroutine returns
Finish(t, delivered) ==
    LET final_status == IF t.settings_applied
                        THEN "Settings applied successfully"
                        ELSE "Settings mismatch detected"
        t1 == IF Confirmable(t.topic)
              THEN Emit(t, NotifyEvent(final_status, TRUE, t.settings_applied, 0),
                        delivered)
              ELSE t
    IN  IF t1.pc = "failed" THEN t1 ELSE [t1 EXCEPT !.pc = "done"]

\* last_sent_messages.get(str(camera_num)): 0 for None
StoreGet(camera_num) ==
    IF camera_num \in CameraKeys THEN last_sent_messages[camera_num] ELSE 0

\* last_sent and last_sent.get('last_status') == 'success'
ReadSuccessCapitalised(last_sent) ==
    last_sent # 0 /\ dicts[last_sent].last_status = "Success"
ReadSuccess(last_sent) ==
    last_sent # 0 /\ dicts[last_sent].last_status = "success"

\* from the start or the backoff to the publish of the command; an
\* exception of publish leaves the coroutine through `except Exception`
OSend(i, ok, delivered) ==
    /\ LoopRunning
    /\ LoopFree
    /\ delivered \/ (tasks[i].pc = "start" /\ Confirmable(tasks[i].topic))
    /\ Closed => ~ok
    /\ MayRaise(ok \/ Closed, delivered)
    /\ tasks[i].pc \in {"start", "loop"}
    /\ LoopCond(tasks[i].retry_count, tasks[i].max_retries,
                tasks[i].settings_applied)
    /\ LET t1 == Sending(tasks[i], delivered)
           t2 == [t1 EXCEPT !.trace = Append(@, CmdEvent(t1.topic,
                                                    JsonDumps(t1.message), ok))]
           t3 == IF t1.pc = "failed" THEN t1
                 ELSE IF ~ok THEN [t2 EXCEPT !.pc = "failed"]
                 ELSE IF Confirmable(t2.topic) THEN [t2 EXCEPT !.pc = "inq"]
                 ELSE Finish(t2, delivered)
       IN  tasks' = [tasks EXCEPT ![i] = t3]
    /\ UNCHANGED <<MAX_MESSAGES, last_update, proc, is_connected, dicts, last_sent_messages, http, handler,
                   handled, nReplies>>

\* the loop condition fails: the code after the loop
OExit(i, delivered) ==
    /\ LoopRunning
    /\ LoopFree
    /\ delivered \/ Confirmable(tasks[i].topic)
    /\ MayRaise(TRUE, delivered)
    /\ tasks[i].pc \in {"start", "loop"}
    /\ ~LoopCond(tasks[i].retry_count, tasks[i].max_retries,
                 tasks[i].settings_applied)
    /\ tasks' = [tasks EXCEPT ![i] = Finish(Sending(tasks[i], delivered), delivered)]
    /\ UNCHANGED <<MAX_MESSAGES, last_update, proc, is_connected, dicts, last_sent_messages, http, handler,
                   handled, nReplies>>

\* the publish of the inquiry request, then asyncio.sleep(0.5)
OInquire(i, ok) ==
    /\ LoopRunning
    /\ LoopFree
    /\ Closed => ~ok
    /\ MayRaise(ok \/ Closed, TRUE)
    /\ tasks[i].pc = "inq"
    /\ tasks' = [tasks EXCEPT
                    ![i].trace = Append(@, InqEvent(tasks[i].camera_num, ok)),
                    ![i].pc = IF ok THEN "wait" ELSE "failed"]
    /\ UNCHANGED <<MAX_MESSAGES, last_update, proc, is_connected, dicts, last_sent_messages, http, handler,
                   handled, nReplies>>

\* after the wait: the read of the outcome, then either the break and the
\* code after the loop, or retry_count += 1, the status update and the backoff
OPoll(i, delivered) ==
    /\ LoopRunning
    /\ LoopFree
    /\ MayRaise(TRUE, delivered)
    /\ tasks[i].pc = "wait"
    /\ LET t == tasks[i]
           success == ReadSuccess(StoreGet(t.camera_num))
           t1 == [t EXCEPT !.trace = Append(@, PollEvent(success))]
           t2 == IF success
                 THEN Finish([t1 EXCEPT !.settings_applied = TRUE], delivered)
                 ELSE LET t3 == [t1 EXCEPT !.retry_count = @ + 1]
                          t4 == IF Confirmable(t3.topic)
                                THEN Emit(t3, NotifyEvent("Settings not confirmed",
                                                          FALSE, FALSE,
                                                          t3.retry_count),
                                          delivered)
                                ELSE t3
                      IN  IF t4.pc = "failed" THEN t4
                          ELSE [t4 EXCEPT !.pc = "loop"]
       IN  tasks' = [tasks EXCEPT ![i] = t2]
    /\ UNCHANGED <<MAX_MESSAGES, last_update, proc, is_connected, dicts, last_sent_messages, http, handler,
                   handled, nReplies>>

\* ---------------------------------------------------- handle_camera_inquiry
HandlerIdle == [pc |-> "idle", data |-> <<>>, last_sent |-> 0, mismatches |-> <<>>]

\* the report of a device that holds the values of one row of the table:
\* the mode capitalised, the gain as a string
EchoPayload(row) ==
    << <<"ExposureMode", StrV(<<"M", "a", "n", "u", "a", "l">>)>>,
       <<"ExposureIris", IntV(row.iris)>>,
       <<"ExposureGain", StrV(IntStr(row.exposuregain))>>,
       <<"ExposureExposureTime", IntV(row.shutterspeed)>>,
       <<"DigitalBrightLevel", IntV(row.brightness)>> >>

\* the replies the bus delivers: a device echoing a row, a report without
\* its last field, and text that is no JSON
Payloads ==
    {EchoPayload(camera_settings[r]) : r \in 1..Len(camera_settings)}
    \cup {SubSeq(EchoPayload(camera_settings[1]), 1, 4), Malformed}

\* last_sent_messages[...]['last_status'] = ...: the one key is assigned
WriteStatusAndIris(d, outcome) ==
    [d EXCEPT !.last_status = outcome, !.iris = IntV(0)]
WriteStatus(d, outcome) == [d EXCEPT !.last_status = outcome]

\* the dict line 226 writes: last_sent_messages[str(camera_num)], looked up
\* again after the comparison
WriteTarget(camera_num, last_sent) == last_sent_messages[camera_num]

\* whether the exception of json.loads leaves handle_camera_inquiry: its
\* `except Exception` prints it
ExceptionEscapesUncaught(payload) == ~JsonDecodable(payload)
ExceptionEscapes(payload) == FALSE

\* json.loads, the lookup of last_sent and the comparison, for a message on
\* caminq.cameraN, the limit-th delivered at most
HandleReply(c, payload, limit) ==
    /\ LoopRunning
    /\ LoopFree
    /\ nReplies < limit
    /\ nReplies' = nReplies + 1
    /\ LET camera_num == CameraNumOf(TopicOf("caminq", c))
           last_sent == last_sent_messages[camera_num]
       IN  IF ~JsonDecodable(payload) \/ last_sent = 0
           THEN \* the exception is printed, or `return`
                handler' = [handler EXCEPT ![c].pc =
                               IF ExceptionEscapes(payload) THEN "raised" ELSE @]
           ELSE handler' = [handler EXCEPT ![c] =
                    [pc |-> "compared", data |-> payload, last_sent |-> last_sent,
                     mismatches |-> ComputeMismatches(dicts[last_sent],
                                                      JsonLoads(payload))]]
    /\ UNCHANGED <<MAX_MESSAGES, last_update, proc, is_connected, dicts, last_sent_messages, http, tasks, handled,
                   nFaults>>

HBegin(c, payload) == HandleReply(c, payload, MaxReplies)

\* the write of last_status and the publish of the result message; a failing
\* publish is printed by `except Exception`
HWrite(c, ok) ==
    /\ LoopRunning
    /\ Closed => ~ok
    /\ handler[c].pc = "compared"
    /\ LET camera_num == CameraNumOf(TopicOf("caminq", c))
           target == WriteTarget(camera_num, handler[c].last_sent)
           mismatches == handler[c].mismatches
       IN  /\ dicts' = [dicts EXCEPT
                          ![target] = WriteStatus(@, OutcomeOf(mismatches))]
           /\ handled' = [handled EXCEPT ![camera_num] =
                  [n          |-> @.n + 1,
                   published  |-> @.published + 1,
                   data       |-> handler[c].data,
                   against    |-> handler[c].last_sent,
                   rec        |-> target,
                   before     |-> dicts[target].last_status,
                   outcome    |-> OutcomeOf(mismatches),
                   mismatches |-> mismatches,
                   topic      |-> TopicOf("cam_setting", camera_num),
                   result     |-> ResultMessage(camera_num, mismatches),
                   ok         |-> ok,
                   waiting    |-> {<<i, tasks[i].retry_count>> :
                                      i \in {j \in 1..Len(tasks) :
                                                /\ tasks[j].camera_num = camera_num
                                                /\ tasks[j].pc = "wait"}}]]
    /\ handler' = [handler EXCEPT ![c] = HandlerIdle]
    /\ MayRaise(ok \/ Closed, TRUE)
    /\ UNCHANGED <<MAX_MESSAGES, last_update, proc, is_connected, last_sent_messages, http, tasks, nReplies>>

\* ----------------------------------------------------------- signal_handler
\* SIGINT or SIGTERM: shutdown_event.set(), the close_nats task is created if
\* the client is connected, socketio.stop() and sys.exit(0)
SignalHandler ==
    /\ ~proc.shutdown_event
    /\ proc' = [proc EXCEPT !.shutdown_event = TRUE,
                            !.close_task = IF is_connected THEN "scheduled" ELSE @]
    /\ UNCHANGED <<MAX_MESSAGES, last_update, is_connected, dicts,
                   last_sent_messages, http, tasks, handler, handled, nReplies,
                   nFaults>>

\* the event loop runs the task close_nats: await nats_client.close()
CloseNats ==
    /\ LoopRunning
    /\ LoopFree
    /\ proc.close_task = "scheduled"
    /\ proc' = [proc EXCEPT !.close_task = "done"]
    /\ is_connected' = FALSE
    /\ UNCHANGED <<MAX_MESSAGES, last_update, dicts, last_sent_messages, http,
                   tasks, handler, handled, nReplies, nFaults>>

\* start_nats_loop finds shutdown_event set between two slices of the loop:
\* event_loop.stop() and close(); the tasks that are suspended stay so, and
\* the daemon thread ends with the process
LoopStop ==
    /\ LoopRunning
    /\ LoopFree
    /\ proc.shutdown_event
    /\ proc' = [proc EXCEPT !.loop = "stopped"]
    /\ UNCHANGED <<MAX_MESSAGES, last_update, is_connected, dicts,
                   last_sent_messages, http, tasks, handler, handled, nReplies,
                   nFaults>>

\* -------------------------------------------------------- update_nats_count
\* msg_count as the request's JSON gives it: a number, held as its double so
\* that halves are numbers too (3 is 1.5), or nothing
Missing == -1

IsWhole(msg_count) == msg_count % 2 = 0

\* int(msg_count): the fraction is cut off
PyInt(msg_count) == msg_count \div 2

\* msg_count is None or msg_count < 1 or msg_count > 20
Rejected(msg_count) ==
    msg_count = Missing \/ msg_count < 2 * 1 \/ msg_count > 2 * 20

NoUpdate == [msg_count |-> Missing, status |-> "", code |-> 0, before |-> 0]

\* POST /update_nats_count
UpdateNatsCount(msg_count) ==
    /\ IF Rejected(msg_count)
       THEN /\ UNCHANGED MAX_MESSAGES
            /\ last_update' = [msg_count |-> msg_count, status |-> "failed",
                               code |-> 400, before |-> MAX_MESSAGES]
       ELSE /\ MAX_MESSAGES' = PyInt(msg_count)
            /\ last_update' = [msg_count |-> msg_count, status |-> "success",
                               code |-> 200, before |-> MAX_MESSAGES]
    /\ UNCHANGED <<proc, is_connected, dicts, last_sent_messages, http, tasks,
                   handler, handled, nReplies, nFaults>>

\* ------------------------------------------------------------ specification
Init ==
    /\ MAX_MESSAGES \in 1..MaxMessagesBound
    /\ last_update = NoUpdate
    /\ proc = ProcRunning
    /\ is_connected = TRUE
    /\ dicts = <<>>
    /\ last_sent_messages = [c \in CameraKeys |-> 0]
    /\ http = HttpIdle
    /\ tasks = <<>>
    /\ handler = [c \in CameraKeys |-> HandlerIdle]
    /\ handled = [c \in CameraKeys |-> NoReply]
    /\ nReplies = 0
    /\ nFaults = 0

Next ==
    \/ \E slider_value \in SliderValues, camera_nums \in CameraLists :
           HandleSliderBegin(slider_value, camera_nums)
    \/ HandleSliderIter
    \/ ConnectionLost
    \/ Reconnected
    \/ \E i \in 1..Len(tasks), ok \in BOOLEAN, delivered \in BOOLEAN :
           OSend(i, ok, delivered)
    \/ \E i \in 1..Len(tasks), delivered \in BOOLEAN : OExit(i, delivered)
    \/ \E i \in 1..Len(tasks), ok \in BOOLEAN : OInquire(i, ok)
    \/ \E i \in 1..Len(tasks), delivered \in BOOLEAN : OPoll(i, delivered)
    \/ \E c \in CameraKeys, payload \in Payloads : HBegin(c, payload)
    \/ \E c \in CameraKeys, ok \in BOOLEAN : HWrite(c, ok)

Spec == Init /\ [][Next]_vars

\* ------------------------------------------------- the event loop's fairness
\* a step of call i: the event loop resumes the coroutine
TaskStep(i) ==
    /\ i \in 1..Len(tasks)
    /\ \/ OSend(i, TRUE, TRUE)
       \/ OExit(i, TRUE)
       \/ OInquire(i, TRUE)
       \/ OPoll(i, TRUE)

\* handle_camera_inquiry has no await before its publish: it runs to its end
HandlerStep == \E c \in CameraKeys : HWrite(c, TRUE)

\* requests, replies and the steps of the calls, all in any order; every
\* publish and every notification completes
NextFair ==
    \/ \E slider_value \in SliderValues, camera_nums \in CameraLists :
           HandleSliderBegin(slider_value, camera_nums)
    \/ HandleSliderIter
    \/ \E i \in 1..MaxIntents : TaskStep(i)
    \/ \E c \in CameraKeys, payload \in Payloads : HBegin(c, payload)
    \/ HandlerStep

\* the event loop runs every callback that is ready, and every publish and
\* sleep a call awaits completes
SpecFair ==
    /\ Init
    /\ [][NextFair]_vars
    /\ WF_vars(HandlerStep)
    /\ \A i \in 1..MaxIntents : WF_vars(TaskStep(i))

\* ----------------------------------- publish_batch_messages called directly
\* topics without the "colour-control" marker
OtherTopics == {TopicOf("ptzcontrol", c) : c \in CameraKeys}

\* max_retries=None
None == 0

\* max_retries if max_retries is not None else Config.MAX_MESSAGES
EffectiveRetries(max_retries) ==
    IF max_retries # None THEN max_retries ELSE MAX_MESSAGES

\* a call publish_batch_messages(topic, message, max_retries) with a topic
\* handle_slider never builds; message 0 is a message that is no stored dict
CallPublishBatch(topic, max_retries) ==
    /\ Len(tasks) < MaxIntents
    /\ tasks' = Append(tasks, NewTask(topic, 0, EffectiveRetries(max_retries)))
    /\ UNCHANGED <<MAX_MESSAGES, last_update, proc, is_connected, dicts, last_sent_messages, http, handler,
                   handled, nReplies, nFaults>>

\* the calls and the steps of the tasks they start: such a task leaves the
\* loop in the step that publishes
NextUnit ==
    \/ \E i \in 1..Len(tasks), ok \in BOOLEAN : OSend(i, ok, TRUE)
    \/ \E topic \in OtherTopics, max_retries \in {None} \cup (1..MaxMessagesBound) :
           CallPublishBatch(topic, max_retries)

SpecUnit == Init /\ [][NextUnit]_vars

\* ------------------------------------- the comparison on its whole domain
\* reports a device may send: each field absent or one of a few values, the
\* fields in the order of comparison_map
FieldValues(i) ==
    IF i = 1 THEN {StrV(<<"M", "a", "n", "u", "a", "l">>), StrV(<<"A", "U", "T", "O">>)}
    ELSE IF i = 2 THEN {IntV(5), StrV(<<"6">>)}
    ELSE IF i = 3 THEN {StrV(<<"3">>)}
    ELSE IF i = 4 THEN {IntV(100), IntV(10)}
    ELSE {IntV(50)}

Absent == [t |-> "absent", n |-> 0, s |-> <<>>]

\* the payload with the fields the choice gives a value, in order
RECURSIVE PayloadFrom(_, _)
PayloadFrom(choice, i) ==
    IF i > Len(comparison_map) THEN <<>>
    ELSE (IF choice[i] = Absent THEN <<>>
          ELSE << <<comparison_map[i][1], choice[i]>> >>)
         \o PayloadFrom(choice, i + 1)

ReportPayloads ==
    {PayloadFrom(<<c1, c2, c3, c4, c5>>, 1) :
        c1 \in FieldValues(1) \cup {Absent}, c2 \in FieldValues(2) \cup {Absent},
        c3 \in FieldValues(3) \cup {Absent}, c4 \in FieldValues(4) \cup {Absent},
        c5 \in FieldValues(5) \cup {Absent}}

\* a camera whose intent is recorded, before any reply
InitCmp ==
    /\ MAX_MESSAGES \in 1..MaxMessagesBound
    /\ last_update = NoUpdate
    /\ proc = ProcRunning
    /\ is_connected = TRUE
    /\ \E slider_value \in {v \in SliderValues : SettingsFound(v)} :
           dicts = <<NewDict(slider_value, "pending")>>
    /\ last_sent_messages = [c \in CameraKeys |-> IF c = IntStr(1) THEN 1 ELSE 0]
    /\ http = HttpIdle
    /\ tasks = <<>>
    /\ handler = [c \in CameraKeys |-> HandlerIdle]
    /\ handled = [c \in CameraKeys |-> NoReply]
    /\ nReplies = 0
    /\ nFaults = 0

NextCmp ==
    \/ \E c \in CameraKeys, payload \in ReportPayloads : HBegin(c, payload)
    \/ \E c \in CameraKeys, ok \in BOOLEAN : HWrite(c, ok)

SpecCmp == InitCmp /\ [][NextCmp]_vars

\* ------------------------------------------------- the run to its shutdown
\* requests, the calls they start, and the signal; no reply is delivered and
\* every notification is
NextShutdown ==
    \/ \E slider_value \in SliderValues, camera_nums \in CameraLists :
           HandleSliderBegin(slider_value, camera_nums)
    \/ HandleSliderIter
    \/ \E i \in 1..Len(tasks), ok \in BOOLEAN : OSend(i, ok, TRUE)
    \/ \E i \in 1..Len(tasks) : OExit(i, TRUE)
    \/ \E i \in 1..Len(tasks), ok \in BOOLEAN : OInquire(i, ok)
    \/ \E i \in 1..Len(tasks) : OPoll(i, TRUE)
    \/ SignalHandler
    \/ CloseNats
    \/ LoopStop

SpecShutdown == Init /\ [][NextShutdown]_vars

\* ------------------------------------------ the attempt bound by itself
\* MAX_MESSAGES = int(os.getenv('MAX_MESSAGES', 5)) with the variable unset
DefaultMaxMessages == 5

\* the numbers a request may carry: 0, 0.5, 1, ... up to 21
MsgCounts == 0..(2 * 21)

InitCount ==
    /\ MAX_MESSAGES = DefaultMaxMessages
    /\ last_update = NoUpdate
    /\ proc = ProcRunning
    /\ is_connected = TRUE
    /\ dicts = <<>>
    /\ last_sent_messages = [c \in CameraKeys |-> 0]
    /\ http = HttpIdle
    /\ tasks = <<>>
    /\ handler = [c \in CameraKeys |-> HandlerIdle]
    /\ handled = [c \in CameraKeys |-> NoReply]
    /\ nReplies = 0
    /\ nFaults = 0

NextCount == \E msg_count \in MsgCounts \cup {Missing} : UpdateNatsCount(msg_count)

SpecCount == InitCount /\ [][NextCount]_vars

\* --------------------------------- the attempt bound while calls are running
\* the numbers a request may carry here: 0, 0.5, ... up to MaxMessagesBound
SmallMsgCounts == 0..(2 * MaxMessagesBound)

\* requests of both kinds and the steps of the calls, in any order; no reply
\* arrives
NextBound ==
    \/ \E slider_value \in SliderValues, camera_nums \in CameraLists :
           HandleSliderBegin(slider_value, camera_nums)
    \/ HandleSliderIter
    \/ \E i \in 1..MaxIntents : TaskStep(i)
    \/ \E msg_count \in SmallMsgCounts \cup {Missing} : UpdateNatsCount(msg_count)

SpecBound == Init /\ [][NextBound]_vars

\* ---------------------------------------------- replies one after another
\* replies delivered in a run of SpecReplies
MaxReports == 2

\* camera 1 has a record and camera 2 has none; replies of every kind, text
\* that is no JSON among them, arrive for both
NextReplies ==
    \/ \E c \in CameraKeys, payload \in Payloads : HandleReply(c, payload, MaxReports)
    \/ \E c \in CameraKeys, ok \in BOOLEAN : HWrite(c, ok)

SpecReplies == InitCmp /\ [][NextReplies]_vars

\* --------------------------------------------------------------- properties
Range(seq) == {seq[k] : k \in 1..Len(seq)}

\* a topic of the confirmable kind: its name holds the marker
HasMarker(topic) == "colour-control" \in Range(topic)

Events(t, kind) == {k \in 1..Len(t.trace) : t.trace[k].ev = kind}

Count(t, kind) == Cardinality(Events(t, kind))

\* the coroutine has returned, after the loop or through its except clause
Returned(t) == t.pc \in {"done", "failed"}

PollReadSuccess(t) == \E k \in Events(t, "poll") : t.trace[k].ok

PublishRaised(t) ==
    \E k \in Events(t, "cmd") \cup Events(t, "inq") : ~t.trace[k].ok

\* the last thing the task did is the final notification
EndsWithFinal(t, applied) ==
    /\ t.trace # <<>>
    /\ LET e == t.trace[Len(t.trace)]
       IN  e.ev = "notify" /\ e.rc /\ e.sa = applied

\* two strings equal but for the case of their letters
SameIgnoringCase(a, b) ==
    /\ Len(a) = Len(b)
    /\ \A k \in 1..Len(a) :
           \/ a[k] = b[k]
           \/ \E j \in 1..Len(UpperChars) :
                  {a[k], b[k]} = {UpperChars[j], LowerChars[j]}

\* the fixed translation table: device-reported field -> sent setting
TranslationTable ==
    { <<"ExposureMode", "exposuremode">>, <<"ExposureIris", "iris">>,
      <<"ExposureGain", "exposuregain">>,
      <<"ExposureExposureTime", "shutterspeed">>,
      <<"DigitalBrightLevel", "brightness">> }

\* the report holds, for every field of the table, the value sent
ValuesEqual(data, sent) ==
    \A pair \in TranslationTable :
        \E k \in 1..Len(data) :
            /\ data[k][1] = pair[1]
            /\ SameIgnoringCase(PyStr(data[k][2]), PyStr(sent[pair[2]]))

\* C1: a confirmable call with max_retries >= 1 none of whose polls read
\* 'success' has, when it returns, published max_retries commands and
\* max_retries inquiry requests, has settings_applied false and has ended
\* with the notification retries_complete=true, settings_applied=false.
C1_ExhaustsAllAttempts ==
    \A i \in 1..Len(tasks) :
        LET t == tasks[i] IN
        (HasMarker(t.topic) /\ t.max_retries >= 1 /\ Returned(t)
            /\ ~PollReadSuccess(t))
        => /\ Count(t, "cmd") = t.max_retries
           /\ Count(t, "inq") = t.max_retries
           /\ ~t.settings_applied
           /\ EndsWithFinal(t, FALSE)

\* The same of the calls that left the loop: it fails only of a call that a
\* raising publish ended.
ExhaustsUnlessPublishRaises ==
    \A i \in 1..Len(tasks) :
        LET t == tasks[i] IN
        (HasMarker(t.topic) /\ t.max_retries >= 1 /\ t.pc = "done"
            /\ ~PollReadSuccess(t))
        => /\ Count(t, "cmd") = t.max_retries
           /\ Count(t, "inq") = t.max_retries
           /\ ~t.settings_applied
           /\ EndsWithFinal(t, FALSE)

\* the last reply handled for the camera of task i was handled while the
\* task was in the wait of its first attempt, holds the values the task
\* sent, and the camera's record is still the dict the task sent
MatchedInFirstWait(i) ==
    LET t == tasks[i]
        h == handled[t.camera_num]
    IN  /\ HasMarker(t.topic)
        /\ h.n >= 1
        /\ <<i, 0>> \in h.waiting
        /\ ValuesEqual(h.data, dicts[t.message])
        /\ last_sent_messages[t.camera_num] = t.message

\* C2: when the reply with the values sent is handled during the wait of the
\* first attempt, the stored outcome is 'success', the result message has
\* status "All settings done" and mismatches null, and the call ends after 1
\* command and 1 inquiry publish with settings_applied true and the
\* notification retries_complete=true, settings_applied=true.
C2_MatchInFirstWaitSettles ==
    \A i \in 1..Len(tasks) :
        LET t == tasks[i]
            h == handled[t.camera_num]
        IN  MatchedInFirstWait(i)
            => /\ dicts[last_sent_messages[t.camera_num]].last_status = "success"
               /\ h.against = t.message
               /\ h.result.status = <<"All settings done">>
               /\ h.result.mismatches = Null
               /\ t.pc \in {"wait", "done"}
               /\ t.pc = "done"
                    => /\ t.settings_applied
                       /\ Count(t, "cmd") = 1
                       /\ Count(t, "inq") = 1
                       /\ Count(t, "poll") = 1
                       /\ EndsWithFinal(t, TRUE)

C2_Witness ==
    \E i \in 1..Len(tasks) : MatchedInFirstWait(i) /\ tasks[i].pc = "done"

\* C3: a call in which a publish raised still ends with the notification
\* retries_complete=true: the attempt counts as failed and the loop goes on.
C3_TransportErrorIsFailedAttempt ==
    \A i \in 1..Len(tasks) :
        LET t == tasks[i] IN
        (HasMarker(t.topic) /\ PublishRaised(t) /\ Returned(t))
        => \E applied \in BOOLEAN : EndsWithFinal(t, applied)

\* C4: the outcome of a reply is written to the dict the reply was compared
\* against.
C4_OutcomeOnComparedRecord ==
    \A c \in CameraKeys :
        handled[c].n >= 1 => handled[c].rec = handled[c].against

\* C5: a call with a topic without the marker and max_retries >= 1 publishes
\* once on that topic, publishes no inquiry request, does not retry and emits
\* no notification.
C5_OtherTopicPublishesOnce ==
    \A i \in 1..Len(tasks) :
        LET t == tasks[i] IN
        (~HasMarker(t.topic) /\ t.max_retries >= 1)
        => /\ Count(t, "notify") = 0
           /\ Count(t, "inq") = 0
           /\ Count(t, "poll") = 0
           /\ t.retry_count = 0
           /\ Count(t, "cmd") <= 1
           /\ \A k \in Events(t, "cmd") : t.trace[k].topic = t.topic
           /\ Returned(t) <=> Count(t, "cmd") = 1

C5_Witness ==
    \E i \in 1..Len(tasks) :
        /\ ~HasMarker(tasks[i].topic)
        /\ tasks[i].max_retries >= 2
        /\ tasks[i].pc = "done"
        /\ Count(tasks[i], "cmd") = 1

\* the camera's confirmation record: the dict last_sent_messages holds for it
NoRecord == [ref |-> 0, last_status |-> "", settings |-> <<>>]

SettingsOf(d) == [k \in SettingKeys |-> d[k]]

Record(c) ==
    IF last_sent_messages[c] = 0 THEN NoRecord
    ELSE [ref         |-> last_sent_messages[c],
          last_status |-> dicts[last_sent_messages[c]].last_status,
          settings    |-> SettingsOf(dicts[last_sent_messages[c]])]

\* the step is one taken for camera a: an iteration of handle_slider for it,
\* a step of its handler, or a step of one of its tasks
OnBehalfOf(a) ==
    \/ /\ http.camera_nums # <<>>
       /\ IntStr(Head(http.camera_nums)) = a
       /\ http' # http
    \/ handler'[a] # handler[a]
    \/ \E i \in 1..Len(tasks) : tasks[i].camera_num = a /\ tasks'[i] # tasks[i]

\* C6: a step taken for camera a leaves the record of every other camera b
\* as it is, whether or not one request gave both the same configuration;
\* and a task decides settings_applied from the record of its own camera.
C6_NoCrossDeviceInterference ==
    [][ /\ \A a \in CameraKeys, b \in CameraKeys :
               (a # b /\ OnBehalfOf(a)) => Record(b)' = Record(b)
        /\ \A i \in 1..Len(tasks) :
               /\ (tasks[i].pc = "wait" /\ tasks'[i].pc # "wait")
                    => (tasks'[i].settings_applied
                          <=> Record(tasks[i].camera_num).last_status = "success")
               /\ (tasks'[i].settings_applied /\ ~tasks[i].settings_applied)
                    => tasks[i].pc = "wait"
      ]_vars

C6_Witness ==
    \E a \in CameraKeys, b \in CameraKeys :
        /\ a # b
        /\ Record(a).last_status = "success"
        /\ Record(b).last_status = "pending"
        /\ Record(a).settings = Record(b).settings
        /\ \E i \in 1..Len(tasks), j \in 1..Len(tasks) :
               /\ tasks[i].camera_num = a /\ tasks[i].settings_applied
               /\ tasks[j].camera_num = b /\ tasks[j].pc = "done"
               /\ ~tasks[j].settings_applied

\* an iteration of handle_slider that finds settings, for camera c
RecordsIntent(c) ==
    /\ http.camera_nums # <<>>
    /\ IntStr(Head(http.camera_nums)) = c
    /\ SettingsFound(http.slider_value)
    /\ http' # http

\* C7: a request overwrites the record of its camera with the configuration
\* and outcome 'pending', whatever the record held (also 'success' for the
\* same configuration), and starts a call unless the bus is not connected
\* (the request is then answered 500); and a call emits a notification
\* with retries_complete=true only after a command and an inquiry publish.
C7_NoCachedSkip ==
    /\ [][ \A c \in CameraKeys :
               RecordsIntent(c)
               => /\ Record(c)'.last_status = "pending"
                  /\ Record(c)'.settings
                       = SettingsOf(NewDict(http.slider_value, "pending"))
                  /\ ~is_connected => tasks' = tasks
                  /\ is_connected
                       => /\ Len(tasks') = Len(tasks) + 1
                          /\ tasks'[Len(tasks')].pc = "start"
                          /\ tasks'[Len(tasks')].trace = <<>>
                          /\ tasks'[Len(tasks')].message = Record(c)'.ref
                          /\ tasks'[Len(tasks')].camera_num = c
         ]_vars
    /\ [](\A i \in 1..Len(tasks) :
            \A k \in Events(tasks[i], "notify") :
                tasks[i].trace[k].rc
                => /\ \E k1 \in Events(tasks[i], "cmd") : k1 < k
                   /\ \E k2 \in Events(tasks[i], "inq") : k2 < k)

C7_Witness ==
    \E i \in 1..Len(tasks), j \in 1..Len(tasks) :
        LET c == tasks[i].camera_num IN
        /\ i < j
        /\ tasks[j].camera_num = c
        /\ SettingsOf(dicts[tasks[i].message]) = SettingsOf(dicts[tasks[j].message])
        /\ dicts[tasks[i].message].last_status = "success"
        /\ handled[c].rec = tasks[i].message
        /\ handled[c].against = tasks[i].message
        /\ tasks[j].pc = "done"
        /\ Count(tasks[j], "cmd") >= 1
        /\ Count(tasks[j], "inq") >= 1

\* what the report says of a field, as a string: '' when the field is absent
ReportedText(data, field) ==
    IF \E k \in 1..Len(data) : data[k][1] = field
    THEN PyStr(data[CHOOSE k \in 1..Len(data) : data[k][1] = field][2])
    ELSE <<>>

NoUpperCase(str) == \A k \in 1..Len(str) : str[k] \notin Range(UpperChars)

\* m names exactly the settings of the table whose sent and reported values
\* differ as lower-cased strings, each with those two strings
IsMismatchSet(m, data, sent) ==
    /\ DOMAIN m \subseteq {pair[2] : pair \in TranslationTable}
    /\ \A pair \in TranslationTable :
           LET sentText == PyStr(sent[pair[2]])
               reported == ReportedText(data, pair[1])
           IN  /\ pair[2] \in DOMAIN m <=> ~SameIgnoringCase(sentText, reported)
               /\ pair[2] \in DOMAIN m
                    => /\ SameIgnoringCase(m[pair[2]].sent, sentText)
                       /\ NoUpperCase(m[pair[2]].sent)
                       /\ SameIgnoringCase(m[pair[2]].received, reported)
                       /\ NoUpperCase(m[pair[2]].received)

Orders(n) == {p \in [1..n -> 1..n] : \A x, y \in 1..n : p[x] = p[y] => x = y}

\* the comparison gives m for the fields of the report in every order
SameInEveryOrder(m, data, sent) ==
    \A p \in Orders(Len(data)) :
        ComputeMismatches(sent, JsonLoads([k \in 1..Len(data) |-> data[p[k]]])) = m

\* C8: the mismatches handle_camera_inquiry computes are exactly the settings
\* of the translation table whose sent and reported values differ as
\* lower-cased strings, with the pair sent/received, whatever the order of
\* the fields of the report; and the outcome it stores is 'success' iff
\* there is none, 'mismatch' otherwise.
C8_MismatchSet ==
    \A c \in CameraKeys :
        /\ handler[c].pc = "compared"
             => /\ IsMismatchSet(handler[c].mismatches, handler[c].data,
                                 dicts[handler[c].last_sent])
                /\ SameInEveryOrder(handler[c].mismatches, handler[c].data,
                                    dicts[handler[c].last_sent])
        /\ handled[c].n >= 1
             => /\ IsMismatchSet(handled[c].mismatches, handled[c].data,
                                 dicts[handled[c].against])
                /\ handled[c].outcome = "success"
                     <=> DOMAIN handled[c].mismatches = {}
                /\ handled[c].outcome = "mismatch"
                     <=> DOMAIN handled[c].mismatches # {}
                /\ dicts[handled[c].rec].last_status = handled[c].outcome

\* a report that spells the mode in capitals and differs in the iris only
C8_Witness ==
    \E c \in CameraKeys :
        /\ handled[c].n >= 1
        /\ DOMAIN handled[c].mismatches = {"iris"}
        /\ ReportedText(handled[c].data, "ExposureMode")
             = <<"M", "a", "n", "u", "a", "l">>
        /\ handled[c].outcome = "mismatch"

\* C9: every reply handled for a camera with a record gives one result
\* message on cam_setting.cameraN for that camera; its status is "All
\* settings done" iff there is no mismatch and null otherwise, its mismatches
\* are null iff there is none; so the status agrees with the outcome the
\* same step wrote to the record.
C9_ResultAgreesWithOutcome ==
    \A c \in CameraKeys :
        LET h == handled[c] IN
        h.n >= 1
        => /\ h.published = h.n
           /\ h.topic = <<"cam_setting", ".", "camera">> \o c
           /\ h.result.camera = c
           /\ h.result.status = <<"All settings done">>
                <=> DOMAIN h.mismatches = {}
           /\ h.result.status = Null <=> DOMAIN h.mismatches # {}
           /\ IF DOMAIN h.mismatches = {}
              THEN h.result.mismatches = Null
              ELSE h.result.mismatches = h.mismatches
           /\ h.outcome \in {"success", "mismatch"}
           /\ dicts[h.rec].last_status = h.outcome
           /\ h.result.status = <<"All settings done">> <=> h.outcome = "success"

C9_Witness ==
    \E c \in CameraKeys :
        /\ handled[c].n >= 1
        /\ handled[c].outcome = "mismatch"
        /\ handled[c].result.status = Null
        /\ handled[c].published = 1

EmitFailed(t) == \E k \in Events(t, "notify") : ~t.trace[k].ok

\* what the task does next follows from what it did last, and its counters
\* from its publishes and polls, as when every notification is delivered
ControlFollowsTrace(t) ==
    /\ t.trace # <<>>
    /\ LET e == t.trace[Len(t.trace)]
       IN  /\ e.ev = "notify" => t.pc = IF e.rc THEN "done" ELSE "loop"
           /\ e.ev = "cmd" => t.pc = IF e.ok THEN "inq" ELSE "failed"
           /\ e.ev = "inq" => t.pc = IF e.ok THEN "wait" ELSE "failed"
           /\ e.ev # "poll"
    /\ t.pc = "failed" <=> PublishRaised(t)
    /\ t.retry_count = Cardinality({k \in Events(t, "poll") : ~t.trace[k].ok})
    /\ t.settings_applied <=> PollReadSuccess(t)
    /\ Count(t, "cmd") - Count(t, "poll") \in {0, 1}
    /\ Count(t, "cmd") - Count(t, "inq") \in {0, 1}
    /\ Count(t, "inq") - Count(t, "poll") \in {0, 1}

\* C10: a call one of whose notifications failed to be delivered goes on as
\* if it had been: it never ends through the failure, and its publishes,
\* its settings_applied and its end follow from the outcomes it polled.
C10_EmitFailureNotPropagated ==
    \A i \in 1..Len(tasks) :
        EmitFailed(tasks[i]) => ControlFollowsTrace(tasks[i])

\* a call whose first notification failed and that ended after the loop
C10_Witness ==
    \E i \in 1..Len(tasks) :
        /\ tasks[i].trace # <<>>
        /\ ~tasks[i].trace[1].ok
        /\ tasks[i].trace[1].ev = "notify"
        /\ tasks[i].pc = "done"
        /\ Count(tasks[i], "cmd") = 2

\* the call is inside its attempt loop: between a command publish and the
\* read of the outcome, or in the backoff before a further attempt
InLoop(t) ==
    \/ t.pc \in {"inq", "wait"}
    \/ t.pc = "loop" /\ LoopCond(t.retry_count, t.max_retries, t.settings_applied)

\* the step emits, in call i, a notification with retries_complete=true
EmitsFinal(i) ==
    /\ i <= Len(tasks)
    /\ Len(tasks'[i].trace) > Len(tasks[i].trace)
    /\ LET e == tasks'[i].trace[Len(tasks'[i].trace)]
       IN  e.ev = "notify" /\ e.rc

\* C11: a notification with retries_complete=true for a camera is emitted
\* only when no call for that camera is inside its attempt loop.
C11_NoPrematureFinal ==
    [][ \A i \in 1..Len(tasks) :
            EmitsFinal(i)
            => \A j \in 1..Len(tasks) :
                   tasks[j].camera_num = tasks[i].camera_num => ~InLoop(tasks'[j])
      ]_vars

\* What holds of each call by itself: a step of handle_camera_inquiry emits
\* nothing, and a call emits retries_complete=true only in the step that
\* takes it out of its own loop to its end.
FinalOnlyAfterOwnLoop ==
    [][ /\ handler' # handler => tasks' = tasks
        /\ \A i \in 1..Len(tasks) :
               EmitsFinal(i)
               => /\ tasks'[i].pc = "done"
                  /\ ~LoopCond(tasks'[i].retry_count, tasks'[i].max_retries,
                               tasks'[i].settings_applied)
      ]_vars

\* C12: the bound is always within 1..20; a request without a value or with
\* one below 1 or above 20 is answered with an error and leaves the bound as
\* it was; an accepted request makes the bound the value requested.
C12_BoundWithinRange ==
    /\ MAX_MESSAGES \in 1..20
    /\ last_update.status \in {"", "failed", "success"}
    /\ (last_update.status = "failed") => MAX_MESSAGES = last_update.before
    /\ (last_update.status # "" /\ (last_update.msg_count = Missing
            \/ last_update.msg_count < 2 \/ last_update.msg_count > 40))
         => last_update.status = "failed" /\ last_update.code = 400
    /\ (last_update.status = "success")
         => 2 * MAX_MESSAGES = last_update.msg_count

\* The same with 'the value requested' read as its whole part: this holds.
BoundIsWholePartOfRequest ==
    /\ MAX_MESSAGES \in 1..20
    /\ (last_update.status = "failed") => MAX_MESSAGES = last_update.before
    /\ (last_update.status # "" /\ (last_update.msg_count = Missing
            \/ last_update.msg_count < 2 \/ last_update.msg_count > 40))
         => last_update.status = "failed" /\ last_update.code = 400
    /\ (last_update.status = "success")
         => /\ last_update.msg_count \in 2..40
            /\ IsWhole(last_update.msg_count)
                 => 2 * MAX_MESSAGES = last_update.msg_count
            /\ ~IsWhole(last_update.msg_count)
                 => 2 * MAX_MESSAGES = last_update.msg_count - 1

\* the step publishes: a call gains a command or an inquiry publish, or the
\* handler publishes a result message
Publishes ==
    \/ \E i \in 1..Len(tasks) :
           /\ Len(tasks'[i].trace) > Len(tasks[i].trace)
           /\ \E k \in (Len(tasks[i].trace) + 1)..Len(tasks'[i].trace) :
                  tasks'[i].trace[k].ev \in {"cmd", "inq"}
    \/ \E c \in CameraKeys : handled'[c].published > handled[c].published

\* the call has begun and not returned: it is suspended in an await
InFlight(t) == t.pc \in {"inq", "wait", "loop"}

\* C13: when the event loop ends after the shutdown signal no call is left
\* suspended (in particular none between its command publish and its inquiry
\* publish), and no publish is attempted once the connection is closed.
C13_ShutdownLetsCallsFinish ==
    [][ /\ proc'.loop = "stopped"
             => \A i \in 1..Len(tasks') : ~InFlight(tasks'[i])
        /\ Publishes => ~Closed
      ]_vars

\* the 'not confirmed' notifications of a call
NotConfirmed(t) ==
    {k \in Events(t, "notify") : t.trace[k].text = "Settings not confirmed"}

\* the notifications with retries_complete=true of a call
Finals(t) == {k \in Events(t, "notify") : t.trace[k].rc}

\* the order of what a confirmable call has done so far: 'sending' first,
\* then attempts of command, inquiry and read, one after the other, with
\* 'not confirmed' notifications of increasing attempt in between
InOrder(t) ==
    /\ t.trace # <<>>
         => /\ t.trace[1].ev = "notify"
            /\ t.trace[1].text = "Sending settings..."
            /\ ~t.trace[1].rc /\ ~t.trace[1].sa
    /\ \A k \in Events(t, "inq") : k > 1 /\ t.trace[k - 1].ev = "cmd"
    /\ \A k \in Events(t, "poll") : k > 1 /\ t.trace[k - 1].ev = "inq"
    /\ \A k1 \in Events(t, "cmd"), k2 \in Events(t, "cmd") :
           k1 < k2 => \E k \in Events(t, "poll") : k1 < k /\ k < k2
    /\ \A k \in NotConfirmed(t) : ~t.trace[k].rc /\ ~t.trace[k].sa
    /\ \A k1 \in NotConfirmed(t), k2 \in NotConfirmed(t) :
           k1 < k2 => t.trace[k1].att < t.trace[k2].att
    /\ \A k \in Finals(t) : k = Len(t.trace)

\* C14: the events of a confirmable call are in order, and when the call has
\* returned it has emitted exactly one notification with
\* retries_complete=true, as its last event, with settings_applied as the
\* call settled.
C14_SingleOrderedNarrative ==
    \A i \in 1..Len(tasks) :
        LET t == tasks[i] IN
        HasMarker(t.topic)
        => /\ InOrder(t)
           /\ Returned(t)
                => /\ Cardinality(Finals(t)) = 1
                   /\ EndsWithFinal(t, t.settings_applied)
           /\ ~Returned(t) => Finals(t) = {}

\* The same of the calls that left the loop: it fails only of a call that a
\* raising publish ended.
NarrativeUnlessPublishRaises ==
    \A i \in 1..Len(tasks) :
        LET t == tasks[i] IN
        HasMarker(t.topic)
        => /\ InOrder(t)
           /\ t.pc = "done"
                => /\ Cardinality(Finals(t)) = 1
                   /\ EndsWithFinal(t, t.settings_applied)
           /\ t.pc # "done" => Finals(t) = {}
           /\ t.pc = "failed" <=> PublishRaised(t)

\* C15: 'not confirmed' is emitted after a failed attempt only if attempts
\* remain: none names the last attempt, and a call that left its loop without
\* settling has emitted max_retries - 1 of them.
C15_NotConfirmedOnlyIfAttemptsRemain ==
    \A i \in 1..Len(tasks) :
        LET t == tasks[i] IN
        (HasMarker(t.topic) /\ t.max_retries >= 1)
        => /\ \A k \in NotConfirmed(t) : t.trace[k].att < t.max_retries
           /\ (t.pc = "done" /\ ~t.settings_applied)
                => Cardinality(NotConfirmed(t)) = t.max_retries - 1

\* What the code does: one 'not confirmed' after every failed attempt, the
\* last one included.
NotConfirmedAfterEveryFailedAttempt ==
    \A i \in 1..Len(tasks) :
        LET t == tasks[i] IN
        (HasMarker(t.topic) /\ t.max_retries >= 1)
        => /\ \A k \in NotConfirmed(t) : t.trace[k].att \in 1..t.max_retries
           /\ Cardinality(NotConfirmed(t)) = t.retry_count
           /\ (t.pc = "done" /\ ~t.settings_applied)
                => Cardinality(NotConfirmed(t)) = t.max_retries

\* the call has made no more than max_retries command publishes, and none
\* after an outcome read that found 'success'
BoundedAttempts(t) ==
    /\ Count(t, "cmd") <= t.max_retries
    /\ \A k \in Events(t, "poll") :
           t.trace[k].ok => \A k1 \in Events(t, "cmd") : k1 < k

\* C16: whatever replies, other calls and calls for the same camera do in
\* between, a call publishes at most max_retries commands and none after it
\* read 'success', and a call that exists comes to return.
C16_BoundedAndTerminates ==
    /\ [](\A i \in 1..Len(tasks) : BoundedAttempts(tasks[i]))
    /\ \A i \in 1..MaxIntents :
           (Len(tasks) >= i) ~> (Len(tasks) >= i /\ Returned(tasks[i]))

\* two calls for one camera, both returned, one settled by a reply and the
\* other after all its attempts
C16_Witness ==
    \E i \in 1..Len(tasks), j \in 1..Len(tasks) :
        /\ i # j
        /\ tasks[i].camera_num = tasks[j].camera_num
        /\ tasks[i].pc = "done" /\ tasks[i].settings_applied
        /\ tasks[j].pc = "done" /\ ~tasks[j].settings_applied
        /\ Count(tasks[j], "cmd") = tasks[j].max_retries
        /\ handled[tasks[i].camera_num].n >= 1

\* the step takes a reply from the bus
ReplyDelivered == nReplies' = nReplies + 1

\* the step begins to handle a reply for camera c
Compares(c) == handler[c].pc = "idle" /\ handler'[c].pc = "compared"

\* C17: a reply for a camera without a record, or one that does not decode,
\* is never compared; a reply that is not compared changes no record, gives no
\* result message and leaves the handlers as they were, ready for the next
\* reply.
C17_DiscardedWithoutEffect ==
    [][ /\ \A c \in CameraKeys :
               Compares(c) => /\ last_sent_messages[c] # 0
                              /\ JsonDecodable(handler'[c].data)
        /\ (ReplyDelivered /\ \A c \in CameraKeys : ~Compares(c))
             => UNCHANGED <<dicts, last_sent_messages, handled, handler, tasks>>
        /\ \A c \in CameraKeys : handler'[c].pc \in {"idle", "compared"}
        /\ \A c \in CameraKeys :
               (last_sent_messages[c] = 0 /\ handled[c] = NoReply)
                 => handled'[c] = NoReply
      ]_vars

\* two replies were delivered: one was discarded, one was compared and
\* written for the camera that has a record
C17_Witness ==
    /\ nReplies = 2
    /\ \E c \in CameraKeys : handled[c].n = 1 /\ handled[c].published = 1
    /\ \A c \in CameraKeys : handler[c].pc = "idle"
    /\ \E c \in CameraKeys : last_sent_messages[c] = 0 /\ handled[c] = NoReply

\* the report lacks a field of the translation table
MissingField(data) ==
    \E pair \in TranslationTable : \A k \in 1..Len(data) : data[k][1] # pair[1]

\* C18: a reply that lacks an expected field leaves the stored outcome of its
\* camera as it was before the reply.
C18_MissingFieldKeepsOutcome ==
    \A c \in CameraKeys :
        (handled[c].n >= 1 /\ MissingField(handled[c].data))
        => dicts[handled[c].rec].last_status = handled[c].before

\* What the code does: the missing field counts as the value '', which
\* differs from what was sent, and the outcome written is 'mismatch'; the
\* handler ends and the calls go on.
MissingFieldIsMismatch ==
    \A c \in CameraKeys :
        (handled[c].n >= 1 /\ MissingField(handled[c].data))
        => /\ handled[c].outcome = "mismatch"
           /\ dicts[handled[c].rec].last_status = "mismatch"
           /\ handled[c].before \in {"pending", "success", "mismatch"}
           /\ handler[c].pc \in {"idle", "compared"}

\* the step records an intent: handle_slider stores a dict
IntentRecorded == Len(dicts') > Len(dicts)

\* C19: a dict, once recorded, keeps its setting names and values, a camera's
\* record changes its settings only when a new intent is recorded, and every
\* command payload of a call has the names and values of the dict recorded
\* when the call was launched.
C19_ConfigurationNeverMutated ==
    /\ [][ /\ \A d \in 1..Len(dicts) : SettingsOf(dicts'[d]) = SettingsOf(dicts[d])
           /\ \A c \in CameraKeys :
                  Record(c)'.settings # Record(c).settings => IntentRecorded
           /\ \A i \in 1..Len(tasks) : tasks'[i].message = tasks[i].message
         ]_vars
    /\ [](\A i \in 1..Len(tasks) :
            HasMarker(tasks[i].topic)
            => \A k \in Events(tasks[i], "cmd") :
                   /\ DOMAIN tasks[i].trace[k].payload
                        = SettingKeys \cup {"last_status"}
                   /\ SettingsOf(tasks[i].trace[k].payload)
                        = SettingsOf(dicts[tasks[i].message]))
    /\ [][ \A c \in CameraKeys :
               RecordsIntent(c)
               => SettingsOf(dicts'[Len(dicts')])
                    = [k \in SettingKeys |-> get_camera_settings(http.slider_value)[k]]
         ]_vars

\* a call published its command twice and a reply was handled in between:
\* the two payloads differ in last_status only
C19_Witness ==
    \E i \in 1..Len(tasks) :
        \E k1 \in Events(tasks[i], "cmd"), k2 \in Events(tasks[i], "cmd") :
            /\ k1 < k2
            /\ tasks[i].trace[k1].payload.last_status = "pending"
            /\ tasks[i].trace[k2].payload.last_status = "mismatch"
            /\ SettingsOf(tasks[i].trace[k1].payload)
                 = SettingsOf(tasks[i].trace[k2].payload)

\* the step launches a call
Launches == Len(tasks') = Len(tasks) + 1

\* C20: a call gets as its bound the value Config.MAX_MESSAGES has when the
\* request launches it and keeps it whatever update_nats_count does later:
\* the attempts it makes are counted against that bound.
C20_BoundFixedAtLaunch ==
    /\ [][ /\ \A i \in 1..Len(tasks) : tasks'[i].max_retries = tasks[i].max_retries
           /\ Launches => tasks'[Len(tasks')].max_retries = MAX_MESSAGES
           /\ MAX_MESSAGES' # MAX_MESSAGES => tasks' = tasks
         ]_vars
    /\ [](\A i \in 1..Len(tasks) :
            /\ Count(tasks[i], "cmd") <= tasks[i].max_retries
            /\ (tasks[i].pc = "done" /\ ~tasks[i].settings_applied)
                 => Count(tasks[i], "cmd") = tasks[i].max_retries
            /\ (tasks[i].pc \in {"inq", "wait"})
                 => Count(tasks[i], "cmd") = tasks[i].retry_count + 1)

\* the bound was lowered from 2 to 1 while the first call, launched with 2,
\* was waiting after its first attempt; the call launched after the update
\* has the bound 1 and ended after 1 attempt
C20_Witness ==
    /\ Len(tasks) = 2
    /\ tasks[1].max_retries = 2 /\ tasks[1].pc \in {"inq", "wait"}
    /\ Count(tasks[1], "cmd") = 1
    /\ MAX_MESSAGES = 1
    /\ last_update.status = "success" /\ last_update.before = 2
    /\ tasks[2].max_retries = 1 /\ tasks[2].pc = "done"
    /\ Count(tasks[2], "cmd") = 1
====
